---- MODULE Spec2Model ----
(***************************************************************************)
(* Model of the navigation editor's menu-item reconciliation and batch     *)
(* save (createMissingMenuItems, saveNavigationPost, batchSave,            *)
(* mapMenuItemsByClientId).  Each generator is a process whose position    *)
(* is the yield it is suspended at; one action resumes it with the         *)
(* result of the yielded effect and runs it to its next yield.             *)
(***************************************************************************)
EXTENDS Integers, Sequences, FiniteSets, TLC

VARIABLES
    post,                 \* the navigation post: id, block tree, clientIds
    mappingStore,         \* mapping store: postId -> (menu item id -> clientId)
    menuItemsStore,       \* entity store: list published for menuItemsQuery( menuId )
    nextId,               \* id the server gives to the next created menu item
    pc,                   \* per invocation: the yield it is suspended at
    op,                   \* per invocation: which action creator runs
    mapping,              \* local `mapping`
    clientIdToMenuId,     \* local `clientIdToMenuId`
    stack,                \* local `stack`
    block,                \* local `block`
    menuItem,             \* local `menuItem` (its id)
    menuItems,            \* local `menuItems`
    menuItemsByClientId,  \* local `menuItemsByClientId` of saveNavigationPost
    nonce,                \* local `nonce` of batchSave
    log,                  \* per invocation: the effects it has yielded, with results
    visited,              \* per invocation: the blocks popped off the stack, in order
    mapping0,             \* per invocation: the mapping as fetched at line 37
    before,               \* per invocation: the mapping store when it was invoked
    again,                \* per invocation: it was invoked after a committed run
    reconciled,           \* a createMissingMenuItems run has committed its mapping
    call                  \* a call of a pure function: its arguments and its result

globals == <<post, mappingStore, menuItemsStore, nextId>>
locals == <<pc, op, mapping, clientIdToMenuId, stack, block, menuItem, menuItems,
            menuItemsByClientId, nonce>>
history == <<log, visited, mapping0, before, again, reconciled>>
vars == <<globals, locals, history, call>>

----------------------------------------------------------------------------
(* Bounds of the model. *)

MaxBlocks == 4
MaxInitIds == 2

Procs == {1}
PostIds == {1, 2}
ClientIds == 1..(MaxBlocks + 1)
Nonces == {0, 1, 2}

----------------------------------------------------------------------------
(* Helpers. *)

Max(S) == CHOOSE x \in S : \A y \in S : y <= x
Min(S) == CHOOSE x \in S : \A y \in S : x <= y

RECURSIVE SortedSeq(_)
SortedSeq(S) == IF S = {} THEN <<>> ELSE <<Min(S)>> \o SortedSeq(S \ {Min(S)})

Range(f) == {f[x] : x \in DOMAIN f}

\* lodash invert: keys are walked in ascending order, a later key overwrites.
Invert(m) == [c \in Range(m) |-> Max({i \in DOMAIN m : m[i] = c})]

\* (mutant) the entry is written the wrong way round
AssignSwapped(m, id, c) == (c :> id) @@ m

\* (mutant) the mapping is replaced by one holding the new entry alone
AssignAlone(m, id, c) == (id :> c)

\* mapping[ id ] = clientId
Assign(m, id, c) == (id :> c) @@ m

Truthy(c) == c # 0

\* a value that may be missing (undefined or null)
Missing == [present |-> FALSE, value |-> <<>>]
Given(v) == [present |-> TRUE, value |-> v]

\* (mutant) a clientId keeps the first item found for it
RECURSIVE ForEachMenuItemFirst(_, _)
ForEachMenuItemFirst(items, clientIdsByMenuId) ==
    IF items = <<>> THEN <<>>
    ELSE LET rest == ForEachMenuItemFirst(SubSeq(items, 1, Len(items) - 1),
                                          clientIdsByMenuId)
             item == items[Len(items)]
         IN IF item \in DOMAIN clientIdsByMenuId /\ Truthy(clientIdsByMenuId[item])
            THEN rest @@ (clientIdsByMenuId[item] :> item)
            ELSE rest

\* the loop of lines 123-128 over the items, a menu item being its id: the
\* table after the last item is the table after those before it, with the
\* entry of the last item written over it
RECURSIVE ForEachMenuItem(_, _)
ForEachMenuItem(items, clientIdsByMenuId) ==
    IF items = <<>> THEN <<>>
    ELSE LET rest == ForEachMenuItem(SubSeq(items, 1, Len(items) - 1),
                                     clientIdsByMenuId)
             item == items[Len(items)]
         IN IF item \in DOMAIN clientIdsByMenuId /\ Truthy(clientIdsByMenuId[item])
            THEN (clientIdsByMenuId[item] :> item) @@ rest
            ELSE rest

mapMenuItemsByClientId(items, clientIdsByMenuId) ==
    IF ~items.present \/ ~clientIdsByMenuId.present THEN <<>>
    ELSE ForEachMenuItem(items.value, clientIdsByMenuId.value)

\* a yielded effect: what it is, its argument, how it returned and with what
Entry(o, a) == [op |-> o, arg |-> a, res |-> "pending", val |-> <<>>]

\* the last yielded effect returns r, and the next effect is yielded
Resume(p, r, o, a) ==
    [log EXCEPT ![p] = Append([@ EXCEPT ![Len(@)].res = r], Entry(o, a))]

\* the same, the effect returning the value v
ResumeWith(p, r, v, o, a) ==
    [log EXCEPT ![p] = Append([@ EXCEPT ![Len(@)].res = r, ![Len(@)].val = v],
                              Entry(o, a))]

\* the last yielded effect returns r, and the generator yields nothing more
Settle(p, r) == [log EXCEPT ![p] = [@ EXCEPT ![Len(@)].res = r]]

----------------------------------------------------------------------------
(* Initial states. *)

Trees(n) == {par \in [2..n -> 1..MaxBlocks] : \A i \in 2..n : par[i] < i}

InnerBlocks(n, par) ==
    [b \in 1..n |-> SortedSeq({i \in 2..n : par[i] = b})]

\* the editor gives every block a clientId of its own (a uuid)
ClientIdsOf(n) == {[b \in 1..n |-> b]}

PostsOf(n) ==
    {[id |-> i, n |-> n, innerBlocks |-> InnerBlocks(n, par), clientId |-> cid] :
        i \in {Min(PostIds)}, par \in Trees(n), cid \in ClientIdsOf(n)}

Posts == UNION {PostsOf(n) : n \in 1..MaxBlocks}

\* the mapping holds the ids of menu items made earlier, each for a clientId
\* of the tree or for one of a block that is gone
InitMappings == UNION {[1..k -> ClientIds] : k \in 0..MaxInitIds}

\* the server has given out the ids 1..k: the entity store holds the list of
\* these k items as the server gave it, in either order
InitLists(k) == {[i \in 1..k |-> i], [i \in 1..k |-> k + 1 - i]}

Root == 1

\* no pure function is being called
NoCall == [fn |-> "none"]

\* the state before any call, for the invocations P
InitFor(P) ==
    /\ post \in Posts
    /\ \E m \in InitMappings :
         mappingStore = [i \in PostIds |-> IF i = post.id THEN m ELSE <<>>]
    /\ nextId \in {Len(mappingStore[post.id]) + 1, Len(mappingStore[post.id]) + 2}
    /\ menuItemsStore \in InitLists(nextId - 1)
    /\ pc = [p \in P |-> "idle"]
    /\ op = [p \in P |-> "none"]
    /\ mapping = [p \in P |-> <<>>]
    /\ clientIdToMenuId = [p \in P |-> <<>>]
    /\ stack = [p \in P |-> <<>>]
    /\ block = [p \in P |-> 0]
    /\ menuItem = [p \in P |-> 0]
    /\ menuItems = [p \in P |-> <<>>]
    /\ menuItemsByClientId = [p \in P |-> <<>>]
    /\ nonce = [p \in P |-> 0]
    /\ log = [p \in P |-> <<>>]
    /\ visited = [p \in P |-> <<>>]
    /\ mapping0 = [p \in P |-> <<>>]
    /\ before = [p \in P |-> <<>>]
    /\ again = [p \in P |-> FALSE]
    /\ reconciled = FALSE
    /\ call = NoCall

Init == InitFor(Procs)

----------------------------------------------------------------------------
(* The stores behind the controls. *)

\* Mapping store, get( postId ): the mapping is handed over as a value
getMenuItemToClientIdMapping(postId) == mappingStore[postId]

\* Mapping store, set( postId, mapping )
setMenuItemToClientIdMapping(postId, m) == [mappingStore EXCEPT ![postId] = m]

\* Menu item list store, get( menuId ): the list last published for the query
resolveMenuItems == menuItemsStore

\* Menu item list store, publish( records, queryKey, invalidate ): the
\* list of the query becomes the records
receiveEntityRecords(records) == records

----------------------------------------------------------------------------
(* The caller. *)

Ops == {"createMissingMenuItems", "saveNavigationPost"}

\* Calling an action creator runs its generator to the first yield:
\* line 37 for createMissingMenuItems, line 85 for saveNavigationPost.
\* The caller makes its next call when the last one has returned; an
\* error thrown out of an invocation ends the session.
Invoke(p, o) ==
    /\ pc[p] \in {"idle", "done"}
    /\ op' = [op EXCEPT ![p] = o]
    /\ pc' = [pc EXCEPT ![p] =
                IF o = "createMissingMenuItems" THEN "getMapping" ELSE "saveItems"]
    /\ log' = [log EXCEPT ![p] =
                <<Entry(IF o = "createMissingMenuItems"
                        THEN "getMenuItemToClientIdMapping" ELSE "resolveMenuItems",
                        <<>>)>>]
    /\ visited' = [visited EXCEPT ![p] = <<>>]
    /\ before' = [before EXCEPT ![p] = mappingStore[post.id]]
    /\ again' = [again EXCEPT ![p] = reconciled]
    /\ mapping0' = [mapping0 EXCEPT ![p] = <<>>]
    /\ mapping' = [mapping EXCEPT ![p] = <<>>]
    /\ clientIdToMenuId' = [clientIdToMenuId EXCEPT ![p] = <<>>]
    /\ stack' = [stack EXCEPT ![p] = <<>>]
    /\ block' = [block EXCEPT ![p] = 0]
    /\ menuItem' = [menuItem EXCEPT ![p] = 0]
    /\ menuItems' = [menuItems EXCEPT ![p] = <<>>]
    /\ menuItemsByClientId' = [menuItemsByClientId EXCEPT ![p] = <<>>]
    /\ nonce' = [nonce EXCEPT ![p] = 0]
    /\ UNCHANGED <<call, globals, reconciled>>

----------------------------------------------------------------------------
(* createMissingMenuItems *)

\* (mutant) the clientId is looked up among the menu item ids
IsMappedNotInverted(inv, b) == post.clientId[b] \in Range(inv)

\* (mutant) the clientId is looked up in the mapping the store holds now
IsMappedInStore(inv, b) == post.clientId[b] \in Range(mappingStore[post.id])

\* `block.clientId in clientIdToMenuId`
IsMapped(inv, b) == post.clientId[b] \in DOMAIN inv

\* (mutant) the children of a mapped block are not pushed
RECURSIVE WalkLeavesChildren(_, _, _)
WalkLeavesChildren(inv, stk, seen) ==
    IF stk = <<>> THEN [stack |-> stk, block |-> 0, visited |-> seen]
    ELSE LET b == stk[Len(stk)]
             rest == SubSeq(stk, 1, Len(stk) - 1)
         IN IF IsMapped(inv, b)
            THEN WalkLeavesChildren(inv, rest, Append(seen, b))
            ELSE [stack |-> rest, block |-> b, visited |-> Append(seen, b)]

\* (mutant) the first block of the stack is taken, not the last
RECURSIVE WalkFromFront(_, _, _)
WalkFromFront(inv, stk, seen) ==
    IF stk = <<>> THEN [stack |-> stk, block |-> 0, visited |-> seen]
    ELSE LET b == stk[1]
             rest == SubSeq(stk, 2, Len(stk))
         IN IF IsMapped(inv, b)
            THEN WalkFromFront(inv, rest \o post.innerBlocks[b], Append(seen, b))
            ELSE [stack |-> rest, block |-> b, visited |-> Append(seen, b)]

\* The traversal from the top of the while loop to the next yield: the
\* loop runs on, popping mapped blocks and pushing their children, until it
\* pops an unmapped block (the POST of line 44 is yielded) or the stack is
\* empty (the action of line 69 is yielded).
RECURSIVE Walk(_, _, _)
Walk(inv, stk, seen) ==
    IF stk = <<>> THEN [stack |-> stk, block |-> 0, visited |-> seen]
    ELSE LET b == stk[Len(stk)]
             rest == SubSeq(stk, 1, Len(stk) - 1)
         IN IF IsMapped(inv, b)
            THEN Walk(inv, rest \o post.innerBlocks[b], Append(seen, b))
            ELSE [stack |-> rest, block |-> b, visited |-> Append(seen, b)]

\* (mutant) the mapping is committed only when an item was created
TraverseCommitsIfCreated(p, inv, stk, r) ==
    LET w == Walk(inv, stk, visited[p])
    IN /\ stack' = [stack EXCEPT ![p] = w.stack]
       /\ block' = [block EXCEPT ![p] = w.block]
       /\ visited' = [visited EXCEPT ![p] = w.visited]
       /\ IF w.block # 0
          THEN /\ pc' = [pc EXCEPT ![p] = "create"]
               /\ log' = Resume(p, r, "POST /__experimental/menu-items", <<w.block>>)
          ELSE IF pc[p] = "publish"
          THEN /\ pc' = [pc EXCEPT ![p] = "commit"]
               /\ log' = Resume(p, r, "SET_MENU_ITEM_TO_CLIENT_ID_MAPPING", <<post.id>>)
          ELSE /\ pc' = [pc EXCEPT ![p] = "done"]
               /\ log' = Settle(p, r)

\* Resumes the while loop of invocation p with stack stk; r is the result
\* of the effect that has just returned.
Traverse(p, inv, stk, r) ==
    LET w == Walk(inv, stk, visited[p])
    IN /\ stack' = [stack EXCEPT ![p] = w.stack]
       /\ block' = [block EXCEPT ![p] = w.block]
       /\ visited' = [visited EXCEPT ![p] = w.visited]
       /\ IF w.block # 0
          THEN /\ pc' = [pc EXCEPT ![p] = "create"]
               /\ log' = Resume(p, r, "POST /__experimental/menu-items", <<w.block>>)
          ELSE /\ pc' = [pc EXCEPT ![p] = "commit"]
               /\ log' = Resume(p, r, "SET_MENU_ITEM_TO_CLIENT_ID_MAPPING", <<post.id>>)

\* lines 37-44: the mapping arrives, it is inverted, the traversal starts
GetMappingReturns(p) ==
    /\ pc[p] = "getMapping"
    /\ LET m == getMenuItemToClientIdMapping(post.id)
       IN /\ mapping' = [mapping EXCEPT ![p] = m]
          /\ mapping0' = [mapping0 EXCEPT ![p] = m]
          /\ clientIdToMenuId' = [clientIdToMenuId EXCEPT ![p] = Invert(m)]
          /\ Traverse(p, Invert(m), <<Root>>, "ok")
    /\ UNCHANGED <<call, globals, op, menuItem, menuItems, menuItemsByClientId, nonce,
                   before, again, reconciled>>

\* (mutant) the new entry is written into the object the store holds
CreateReturnsInStore(p) ==
    /\ pc[p] = "create"
    /\ menuItem' = [menuItem EXCEPT ![p] = nextId]
    /\ nextId' = nextId + 1
    /\ mapping' = [mapping EXCEPT ![p] = Assign(@, nextId, post.clientId[block[p]])]
    /\ mappingStore' = [mappingStore EXCEPT ![post.id] =
                            Assign(@, nextId, post.clientId[block[p]])]
    /\ pc' = [pc EXCEPT ![p] = "refetch"]
    /\ log' = ResumeWith(p, "ok", <<nextId>>, "resolveMenuItems", <<>>)
    /\ UNCHANGED <<call, post, menuItemsStore, op, clientIdToMenuId, stack,
                   block, menuItems, menuItemsByClientId, nonce, visited, mapping0,
                   before, again, reconciled>>

\* lines 44-55: the server creates the item and answers; the new entry is
\* written into the local mapping; the list refetch is yielded
CreateReturns(p) ==
    /\ pc[p] = "create"
    /\ menuItem' = [menuItem EXCEPT ![p] = nextId]
    /\ nextId' = nextId + 1
    /\ mapping' = [mapping EXCEPT ![p] = Assign(@, nextId, post.clientId[block[p]])]
    /\ pc' = [pc EXCEPT ![p] = "refetch"]
    /\ log' = ResumeWith(p, "ok", <<nextId>>, "resolveMenuItems", <<>>)
    /\ UNCHANGED <<call, post, mappingStore, menuItemsStore, op, clientIdToMenuId, stack,
                   block, menuItems, menuItemsByClientId, nonce, visited, mapping0,
                   before, again, reconciled>>

\* (mutant) only the new item is published, without the refetched list
RefetchReturnsOnlyNew(p) ==
    /\ pc[p] = "refetch"
    /\ menuItems' = [menuItems EXCEPT ![p] = <<>>]
    /\ pc' = [pc EXCEPT ![p] = "publish"]
    /\ log' = ResumeWith(p, "ok", resolveMenuItems, "receiveEntityRecords",
                         <<(<<menuItem[p]>>), FALSE>>)
    /\ UNCHANGED <<call, globals, op, mapping, clientIdToMenuId, stack, block, menuItem,
                   menuItemsByClientId, nonce, visited, mapping0, before, again, reconciled>>

\* lines 55-64: the list arrives; the publish of [ ...menuItems, menuItem ]
\* with the invalidate flag false is yielded
RefetchReturns(p) ==
    /\ pc[p] = "refetch"
    /\ menuItems' = [menuItems EXCEPT ![p] = resolveMenuItems]
    /\ pc' = [pc EXCEPT ![p] = "publish"]
    /\ log' = ResumeWith(p, "ok", resolveMenuItems, "receiveEntityRecords",
                         <<Append(resolveMenuItems, menuItem[p]), FALSE>>)
    /\ UNCHANGED <<call, globals, op, mapping, clientIdToMenuId, stack, block, menuItem,
                   menuItemsByClientId, nonce, visited, mapping0, before, again, reconciled>>

\* (mutant) the refetched list is published without the new item
PublishReturnsWithoutItem(p) ==
    /\ pc[p] = "publish"
    /\ menuItemsStore' = receiveEntityRecords(menuItems[p])
    /\ Traverse(p, clientIdToMenuId[p], stack[p] \o post.innerBlocks[block[p]], "ok")
    /\ UNCHANGED <<call, post, mappingStore, nextId, op, mapping, clientIdToMenuId,
                   menuItem, menuItems, menuItemsByClientId, nonce, mapping0, before, again, reconciled>>

\* (mutant) the children of a block an item was created for are not pushed
PublishReturnsDropsChildren(p) ==
    /\ pc[p] = "publish"
    /\ menuItemsStore' = receiveEntityRecords(Append(menuItems[p], menuItem[p]))
    /\ Traverse(p, clientIdToMenuId[p], stack[p], "ok")
    /\ UNCHANGED <<call, post, mappingStore, nextId, op, mapping, clientIdToMenuId,
                   menuItem, menuItems, menuItemsByClientId, nonce, mapping0, before, again, reconciled>>

\* lines 56-66, 41-44: the entity store takes the published list; the
\* children of the block are pushed and the loop goes on
PublishReturns(p) ==
    /\ pc[p] = "publish"
    /\ menuItemsStore' = receiveEntityRecords(Append(menuItems[p], menuItem[p]))
    /\ Traverse(p, clientIdToMenuId[p], stack[p] \o post.innerBlocks[block[p]], "ok")
    /\ UNCHANGED <<call, post, mappingStore, nextId, op, mapping, clientIdToMenuId,
                   menuItem, menuItems, menuItemsByClientId, nonce, mapping0, before, again, reconciled>>

\* (mutant) the mapping as fetched is committed, without the new entries
CommitFetched(p) ==
    /\ pc[p] = "commit"
    /\ mappingStore' = setMenuItemToClientIdMapping(post.id, mapping0[p])
    /\ pc' = [pc EXCEPT ![p] = "done"]
    /\ log' = Settle(p, "ok")
    /\ reconciled' = TRUE
    /\ UNCHANGED <<call, post, menuItemsStore, nextId, op, mapping, clientIdToMenuId,
                   stack, block, menuItem, menuItems, menuItemsByClientId, nonce,
                   visited, mapping0, before, again>>

\* lines 69-74: the store takes the mapping for post.id; the generator returns
Commit(p) ==
    /\ pc[p] = "commit"
    /\ mappingStore' = setMenuItemToClientIdMapping(post.id, mapping[p])
    /\ pc' = [pc EXCEPT ![p] = "done"]
    /\ log' = Settle(p, "ok")
    /\ reconciled' = TRUE
    /\ UNCHANGED <<call, post, menuItemsStore, nextId, op, mapping, clientIdToMenuId,
                   stack, block, menuItem, menuItems, menuItemsByClientId, nonce,
                   visited, mapping0, before, again>>

\* a yielded effect of createMissingMenuItems throws: nothing catches it
CreateThrows(p) ==
    /\ pc[p] \in {"getMapping", "create", "refetch", "publish"}
    /\ pc' = [pc EXCEPT ![p] = "failed"]
    /\ log' = Settle(p, "throw")
    /\ UNCHANGED <<call, globals, op, mapping, clientIdToMenuId, stack, block, menuItem,
                   menuItems, menuItemsByClientId, nonce, visited, mapping0, before, again, reconciled>>

----------------------------------------------------------------------------
(* saveNavigationPost and batchSave *)

\* what the nonce endpoint may answer: nothing, or an object whose nonce
\* is falsy (0) or a token
NonceResponses ==
    {[present |-> FALSE, nonce |-> 0]} \cup {[present |-> TRUE, nonce |-> n] : n \in Nonces}

\* what the save endpoint may answer: nothing, or an object with a success field
SaveResponses ==
    {[present |-> FALSE, success |-> FALSE]} \cup
    {[present |-> TRUE, success |-> b] : b \in BOOLEAN}

\* line 85 returns; line 86 is yielded
SaveItemsReturns(p) ==
    /\ pc[p] = "saveItems"
    /\ menuItems' = [menuItems EXCEPT ![p] = resolveMenuItems]
    /\ pc' = [pc EXCEPT ![p] = "saveMapping"]
    /\ log' = Resume(p, "ok", "getMenuItemToClientIdMapping", <<>>)
    /\ UNCHANGED <<call, globals, op, mapping, clientIdToMenuId, stack, block, menuItem,
                   menuItemsByClientId, nonce, visited, mapping0, before, again, reconciled>>

\* lines 84-90, 133: the table by clientId is built, the try block is
\* entered and batchSave yields the nonce fetch
SaveMappingReturns(p) ==
    /\ pc[p] = "saveMapping"
    /\ mapping' = [mapping EXCEPT ![p] = getMenuItemToClientIdMapping(post.id)]
    /\ mapping0' = [mapping0 EXCEPT ![p] = getMenuItemToClientIdMapping(post.id)]
    /\ menuItemsByClientId' = [menuItemsByClientId EXCEPT ![p] =
            mapMenuItemsByClientId(Given(menuItems[p]),
                                   Given(getMenuItemToClientIdMapping(post.id)))]
    /\ pc' = [pc EXCEPT ![p] = "nonce"]
    /\ log' = Resume(p, "ok", "GET get-save-nonce", <<>>)
    /\ UNCHANGED <<call, globals, op, clientIdToMenuId, stack, block, menuItem, menuItems,
                   nonce, visited, before, again, reconciled>>

\* the identity the serializer gives a block: the id of its menu item, or 0,
\* the marker of a new item, when the table has no entry for its clientId
ItemIdOf(b, table) ==
    IF post.clientId[b] \in DOMAIN table THEN table[post.clientId[b]] ELSE 0

\* The changeset serializer: for every block below the navigation block, in
\* the order of the tree, its identity, its parent's and its place among
\* its siblings.
RECURSIVE FlatList(_, _, _, _)
FlatList(blocks, parent, position, table) ==
    IF position > Len(blocks) THEN <<>>
    ELSE <<[block |-> blocks[position], id |-> ItemIdOf(blocks[position], table),
            parent |-> parent, position |-> position]>>
         \o FlatList(post.innerBlocks[blocks[position]],
                     ItemIdOf(blocks[position], table), 1, table)
         \o FlatList(blocks, parent, position + 1, table)

computeCustomizedAttribute(blocks, table) == FlatList(blocks, 0, 1, table)

\* lines 139-156: the form, of which the nonce and the changeset are kept
Body(p, n) ==
    <<n, computeCustomizedAttribute(post.innerBlocks[Root], menuItemsByClientId[p])>>

\* lines 106-107: the catch block yields the error notice
Catch(p, r) ==
    /\ pc' = [pc EXCEPT ![p] = "errorNotice"]
    /\ log' = Resume(p, r, "createErrorNotice", <<>>)

\* (mutant) the nonce is not tested before the form is submitted
NonceReturnsUnchecked(p, r) ==
    /\ pc[p] = "nonce"
    /\ IF ~r.present
       THEN Catch(p, "none") /\ UNCHANGED nonce
       ELSE /\ nonce' = [nonce EXCEPT ![p] = r.nonce]
            /\ pc' = [pc EXCEPT ![p] = "savePost"]
            /\ log' = ResumeWith(p, IF Truthy(r.nonce) THEN "ok" ELSE "falsy",
                                 <<r.nonce>>, "POST /wp-admin/admin-ajax.php",
                                 Body(p, r.nonce))
    /\ UNCHANGED <<call, globals, op, mapping, clientIdToMenuId, stack, block, menuItem,
                   menuItems, menuItemsByClientId, visited, mapping0, before, again,
                   reconciled>>

\* (mutant) a tree with a block the fetched mapping lacks is not submitted
NonceReturnsReconciled(p, r) ==
    /\ pc[p] = "nonce"
    /\ IF ~r.present
       THEN Catch(p, "none") /\ UNCHANGED nonce
       ELSE /\ nonce' = [nonce EXCEPT ![p] = r.nonce]
            /\ IF ~Truthy(r.nonce)
               THEN Catch(p, "falsy")
               ELSE IF \E b \in 1..post.n : post.clientId[b] \notin Range(mapping[p])
               THEN Catch(p, "ok")
               ELSE /\ pc' = [pc EXCEPT ![p] = "savePost"]
                    /\ log' = ResumeWith(p, "ok", <<r.nonce>>,
                                         "POST /wp-admin/admin-ajax.php",
                                         Body(p, r.nonce))
    /\ UNCHANGED <<call, globals, op, mapping, clientIdToMenuId, stack, block, menuItem,
                   menuItems, menuItemsByClientId, visited, mapping0, before, again, reconciled>>

\* lines 133-162: destructuring no response throws, a falsy nonce throws;
\* otherwise the form is built around the nonce and the POST is yielded
NonceReturns(p, r) ==
    /\ pc[p] = "nonce"
    /\ IF ~r.present
       THEN Catch(p, "none") /\ UNCHANGED nonce
       ELSE /\ nonce' = [nonce EXCEPT ![p] = r.nonce]
            /\ IF ~Truthy(r.nonce)
               THEN Catch(p, "falsy")
               ELSE /\ pc' = [pc EXCEPT ![p] = "savePost"]
                    /\ log' = ResumeWith(p, "ok", <<r.nonce>>,
                                         "POST /wp-admin/admin-ajax.php",
                                         Body(p, r.nonce))
    /\ UNCHANGED <<call, globals, op, mapping, clientIdToMenuId, stack, block, menuItem,
                   menuItems, menuItemsByClientId, visited, mapping0, before, again, reconciled>>

\* (mutant) the test of response.success is inverted
SavePostReturnsInverted(p, r) ==
    /\ pc[p] = "savePost"
    /\ IF ~r.present THEN Catch(p, "none")
       ELSE IF r.success THEN Catch(p, "ok")
       ELSE /\ pc' = [pc EXCEPT ![p] = "successNotice"]
            /\ log' = Resume(p, "falsy", "createSuccessNotice", <<>>)
    /\ UNCHANGED <<call, globals, op, mapping, clientIdToMenuId, stack, block, menuItem,
                   menuItems, menuItemsByClientId, nonce, visited, mapping0, before,
                   again, reconciled>>

\* (mutant) a refused save is submitted again
SavePostReturnsRetries(p, r) ==
    /\ pc[p] = "savePost"
    /\ IF ~r.present THEN Catch(p, "none")
       ELSE IF ~r.success
       THEN /\ pc' = pc
            /\ log' = Resume(p, "falsy", "POST /wp-admin/admin-ajax.php",
                           Body(p, nonce[p]))
       ELSE /\ pc' = [pc EXCEPT ![p] = "successNotice"]
            /\ log' = Resume(p, "ok", "createSuccessNotice", <<>>)
    /\ UNCHANGED <<call, globals, op, mapping, clientIdToMenuId, stack, block, menuItem,
                   menuItems, menuItemsByClientId, nonce, visited, mapping0, before,
                   again, reconciled>>

\* lines 90-105: no response or a falsy success throws; otherwise the
\* success notice is yielded
SavePostReturns(p, r) ==
    /\ pc[p] = "savePost"
    /\ IF ~r.present THEN Catch(p, "none")
       ELSE IF ~r.success THEN Catch(p, "falsy")
       ELSE /\ pc' = [pc EXCEPT ![p] = "successNotice"]
            /\ log' = Resume(p, "ok", "createSuccessNotice", <<>>)
    /\ UNCHANGED <<call, globals, op, mapping, clientIdToMenuId, stack, block, menuItem,
                   menuItems, menuItemsByClientId, nonce, visited, mapping0, before, again, reconciled>>

\* lines 98-116: a notice dispatch returns; the generator returns
NoticeReturns(p) ==
    /\ pc[p] \in {"successNotice", "errorNotice"}
    /\ pc' = [pc EXCEPT ![p] = "done"]
    /\ log' = Settle(p, "ok")
    /\ UNCHANGED <<call, globals, op, mapping, clientIdToMenuId, stack, block, menuItem,
                   menuItems, menuItemsByClientId, nonce, visited, mapping0, before, again, reconciled>>

\* lines 89-106: an effect yielded inside the try block throws
TryThrows(p) ==
    /\ pc[p] \in {"nonce", "savePost", "successNotice"}
    /\ Catch(p, "throw")
    /\ UNCHANGED <<call, globals, op, mapping, clientIdToMenuId, stack, block, menuItem,
                   menuItems, menuItemsByClientId, nonce, visited, mapping0, before, again, reconciled>>

\* lines 85-86, 107: an effect yielded outside the try block throws:
\* nothing catches it
SaveThrows(p) ==
    /\ pc[p] \in {"saveItems", "saveMapping", "errorNotice"}
    /\ pc' = [pc EXCEPT ![p] = "failed"]
    /\ log' = Settle(p, "throw")
    /\ UNCHANGED <<call, globals, op, mapping, clientIdToMenuId, stack, block, menuItem,
                   menuItems, menuItemsByClientId, nonce, visited, mapping0, before, again, reconciled>>

----------------------------------------------------------------------------

Next ==
    \E p \in Procs :
        \/ \E o \in Ops : Invoke(p, o)
        \/ GetMappingReturns(p)
        \/ CreateReturns(p)
        \/ RefetchReturns(p)
        \/ PublishReturns(p)
        \/ Commit(p)
        \/ CreateThrows(p)
        \/ SaveItemsReturns(p)
        \/ SaveMappingReturns(p)
        \/ \E r \in NonceResponses : NonceReturns(p, r)
        \/ \E r \in SaveResponses : SavePostReturns(p, r)
        \/ NoticeReturns(p)
        \/ TryThrows(p)
        \/ SaveThrows(p)

Spec == Init /\ [][Next]_vars

----------------------------------------------------------------------------
(* What the properties speak of. *)

CREATE == "POST /__experimental/menu-items"
REFETCH == "resolveMenuItems"
PUBLISH == "receiveEntityRecords"
SET == "SET_MENU_ITEM_TO_CLIENT_ID_MAPPING"
GETNONCE == "GET get-save-nonce"
SAVE == "POST /wp-admin/admin-ajax.php"
SUCCESS == "createSuccessNotice"
ERROR == "createErrorNotice"

\* the positions of the log of p at which the effect o was yielded
At(p, o) == {i \in 1..Len(log[p]) : log[p][i].op = o}
Count(p, o) == Cardinality(At(p, o))
\* the positions at which the effect o returned r
Got(p, o, r) == {i \in At(p, o) : log[p][i].res = r}
Last(p) == log[p][Len(log[p])]

TreeBlocks == 1..post.n
\* the blocks whose clientId is not a value of the mapping m
Unmapped(m) == {b \in TreeBlocks : post.clientId[b] \notin Range(m)}
Size(m) == Cardinality(DOMAIN m)
\* the entries of m whose value is the clientId c
EntriesFor(m, c) == {i \in DOMAIN m : m[i] = c}
Injective(m) == \A i, j \in DOMAIN m : m[i] = m[j] => i = j
DistinctClientIds ==
    \A a, b \in TreeBlocks : post.clientId[a] = post.clientId[b] => a = b
\* the ids the server gave to the items this invocation created
CreatedIds(p) == {log[p][i].val[1] : i \in Got(p, CREATE, "ok")}
FreshIds(p) == CreatedIds(p) \cap DOMAIN mapping0[p] = {}

Creating(p) == op[p] = "createMissingMenuItems"
Saving(p) == op[p] = "saveNavigationPost"
CreateDone(p) == Creating(p) /\ pc[p] = "done"

----------------------------------------------------------------------------
(* C1: a completed createMissingMenuItems on a tree of pairwise distinct   *)
(* clientIds, the server giving fresh ids, has issued exactly N create      *)
(* requests and commits a mapping of exactly N entries more than the        *)
(* mapping it fetched, N being the number of blocks (root included) whose   *)
(* clientId is not a value of the fetched mapping.                          *)
C1_CreatesExactlyTheMissing ==
    \A p \in Procs :
        (CreateDone(p) /\ DistinctClientIds /\ FreshIds(p)) =>
            LET N == Cardinality(Unmapped(mapping0[p]))
            IN /\ Count(p, CREATE) = N
               /\ Size(mapping[p]) = Size(mapping0[p]) + N
               /\ mappingStore[post.id] = mapping[p]

C1_Witness ==
    \E p \in Procs :
        /\ CreateDone(p)
        /\ Cardinality(Unmapped(mapping0[p])) = 2
        /\ post.n = 3
        /\ Size(mapping0[p]) = 2

(* C2 as stated: on a root with exactly two children, one mapped and one   *)
(* not, exactly 1 create request is issued and the committed mapping has   *)
(* exactly 2 entries.                                                      *)
TwoChildren == post.n = 3 /\ post.innerBlocks[Root] = <<2, 3>>
OneChildMapped(m) == Cardinality(Unmapped(m) \ {Root}) = 1

C2_AsStated ==
    \A p \in Procs :
        (CreateDone(p) /\ TwoChildren /\ OneChildMapped(mapping0[p])) =>
            /\ Count(p, CREATE) = 1
            /\ Size(mapping[p]) = 2

(* C2 amended: on such a tree the root is examined like its children: 1    *)
(* create request is issued when the root's clientId is a value of the     *)
(* mapping and 2 when it is not, and the committed mapping has that many   *)
(* entries more than the fetched one, hence at least 3.                    *)
C2_RootCounts ==
    \A p \in Procs :
        (CreateDone(p) /\ TwoChildren /\ OneChildMapped(mapping0[p])) =>
            LET r == IF Root \in Unmapped(mapping0[p]) THEN 1 ELSE 0
            IN /\ Count(p, CREATE) = 1 + r
               /\ Size(mapping[p]) = Size(mapping0[p]) + 1 + r
               /\ Size(mapping[p]) >= 3
               /\ mappingStore[post.id] = mapping[p]

C2_Witness ==
    \E p \in Procs :
        /\ CreateDone(p) /\ TwoChildren /\ OneChildMapped(mapping0[p])
        /\ Root \in Unmapped(mapping0[p])
        /\ Size(mapping0[p]) = 1
        /\ Count(p, CREATE) = 2

(* C3: a createMissingMenuItems invoked after a run has committed its      *)
(* mapping, on the same tree, issues no create request, no list refetch    *)
(* and no publish, and commits the mapping the store already held.         *)
C3_SecondRunIdle ==
    \A p \in Procs :
        (Creating(p) /\ again[p]) =>
            /\ Count(p, CREATE) = 0
            /\ Count(p, REFETCH) = 0
            /\ Count(p, PUBLISH) = 0
            /\ pc[p] \in {"commit", "done"} => mapping[p] = before[p]
            /\ pc[p] = "done" => mappingStore[post.id] = before[p]

C3_Witness ==
    \E p \in Procs :
        /\ CreateDone(p) /\ again[p]
        /\ Size(before[p]) > MaxInitIds
        /\ Count(p, SET) = 1

(* C4 as stated: every saveNavigationPost that has ended, whatever failed  *)
(* on the way, has dispatched exactly one notice.                          *)
C4_ExactlyOneNotice ==
    \A p \in Procs :
        (Saving(p) /\ pc[p] \in {"done", "failed"}) =>
            Count(p, SUCCESS) + Count(p, ERROR) = 1

(* C5: when a create request, a list refetch or a publish throws, the      *)
(* invocation ends with that error, has emitted no                         *)
(* SET_MENU_ITEM_TO_CLIENT_ID_MAPPING, and the mapping store holds what it *)
(* held when the invocation began.                                         *)
C5_FailureCommitsNothing ==
    \A p \in Procs :
        (/\ Creating(p)
         /\ \E o \in {CREATE, REFETCH, PUBLISH} : Got(p, o, "throw") # {}) =>
            /\ pc[p] = "failed"
            /\ Last(p).res = "throw"
            /\ Count(p, SET) = 0
            /\ mappingStore[post.id] = before[p]

C5_Witness ==
    \E p \in Procs :
        /\ Creating(p) /\ pc[p] = "failed"
        /\ Got(p, PUBLISH, "throw") # {}
        /\ Count(p, CREATE) = 2
        /\ Size(mapping[p]) = Size(before[p]) + 2

(* C6: when the nonce endpoint answers nothing, or an object with a falsy  *)
(* nonce, the save POST is not submitted and the error notice is           *)
(* dispatched.                                                             *)
C6_NoNonceNoSubmit ==
    \A p \in Procs :
        (Saving(p) /\ Got(p, GETNONCE, "none") \cup Got(p, GETNONCE, "falsy") # {}) =>
            /\ Count(p, SAVE) = 0
            /\ Count(p, SUCCESS) = 0
            /\ Count(p, ERROR) = 1
            /\ \A i \in At(p, ERROR) : \A j \in At(p, GETNONCE) : j < i

C6_Witness ==
    \E p \in Procs :
        /\ Saving(p) /\ pc[p] = "done"
        /\ Got(p, GETNONCE, "none") # {}
        /\ Got(p, ERROR, "ok") # {}

\* the nonce endpoint gave a nonce and the save endpoint {success: true}
SaveAccepted(p) ==
    Saving(p) /\ Got(p, GETNONCE, "ok") # {} /\ Got(p, SAVE, "ok") # {}

\* one nonce fetch, then one save POST carrying the nonce it returned, then
\* the success notice
OneSubmission(p) ==
    /\ Count(p, GETNONCE) = 1
    /\ Count(p, SAVE) = 1
    /\ Count(p, SUCCESS) = 1
    /\ \A i \in At(p, GETNONCE) : \A j \in At(p, SAVE) : \A k \in At(p, SUCCESS) :
          /\ j = i + 1
          /\ k = j + 1
          /\ <<log[p][j].arg[1]>> = log[p][i].val
          /\ Truthy(log[p][j].arg[1])

C8_NoRetry ==
    \A p \in Procs :
        Saving(p) =>
            /\ Count(p, SAVE) <= 1
            /\ (\E r \in {"falsy", "none", "throw"} : Got(p, SAVE, r) # {}) =>
                  /\ Count(p, ERROR) = 1
                  /\ Count(p, SUCCESS) = 0
                  /\ \A i \in At(p, ERROR) : \A j \in At(p, SAVE) : i = j + 1

C8_Witness ==
    \E p \in Procs :
        /\ Saving(p) /\ pc[p] = "done"
        /\ Got(p, SAVE, "falsy") # {}
        /\ Got(p, ERROR, "ok") # {}

(* C9: after a completed createMissingMenuItems whose fetched mapping maps *)
(* no two ids to one clientId, the server giving fresh ids, the clientId   *)
(* of every block of the tree is the value of exactly one entry of the     *)
(* committed mapping.                                                      *)
C9_OneEntryPerBlock ==
    \A p \in Procs :
        (CreateDone(p) /\ Injective(mapping0[p]) /\ FreshIds(p)) =>
            \A b \in TreeBlocks :
                Cardinality(EntriesFor(mappingStore[post.id], post.clientId[b])) = 1

C9_Witness ==
    \E p \in Procs :
        /\ CreateDone(p) /\ Injective(mapping0[p]) /\ FreshIds(p)
        /\ post.n = 3
        /\ Size(mapping0[p]) = 2
        /\ Cardinality(Unmapped(mapping0[p])) = 2

(* C10: a completed createMissingMenuItems has emitted exactly one         *)
(* SET_MENU_ITEM_TO_CLIENT_ID_MAPPING, for post.id and with the local      *)
(* mapping, as its last effect, whether or not it created an item; no      *)
(* invocation emits it before another effect.                              *)
C10_OneCommitLast ==
    \A p \in Procs :
        /\ \A i \in At(p, SET) : i = Len(log[p])
        /\ CreateDone(p) =>
              /\ Count(p, SET) = 1
              /\ Last(p) = [op |-> SET, arg |-> <<post.id>>, res |-> "ok", val |-> <<>>]
              /\ mappingStore[post.id] = mapping[p]
              /\ \A i \in PostIds \ {post.id} : mappingStore[i] = <<>>

C10_Witness ==
    \E p \in Procs :
        /\ CreateDone(p)
        /\ Count(p, CREATE) = 0
        /\ Len(log[p]) = 2
        /\ post.n = 3

(* C11: the mapping is only extended: after a completed                    *)
(* createMissingMenuItems, the server giving fresh ids, every entry of the *)
(* fetched mapping is in the committed mapping with the same clientId,     *)
(* also when that clientId is of no block of the tree.                     *)
C11_EntriesKept ==
    \A p \in Procs :
        (CreateDone(p) /\ FreshIds(p)) =>
            \A i \in DOMAIN mapping0[p] :
                /\ i \in DOMAIN mappingStore[post.id]
                /\ mappingStore[post.id][i] = mapping0[p][i]

C11_Witness ==
    \E p \in Procs :
        /\ CreateDone(p) /\ FreshIds(p)
        /\ Count(p, CREATE) >= 2
        /\ \E i \in DOMAIN mapping0[p] :
              /\ mapping0[p][i] \notin {post.clientId[b] : b \in TreeBlocks}
              /\ mappingStore[post.id][i] = mapping0[p][i]

----------------------------------------------------------------------------
(* Two invocations of createMissingMenuItems for the same post, resumed in *)
(* any order at their yields.                                              *)

ProcsConc == {1, 2}

\* the mapping holds one item for some of the blocks of the tree; the server
\* has given out the ids of the mapping and no other, and the entity store
\* lists them in that order
\* the trees of the posts two invocations run on at once
MaxBlocksConc == 3

InitConc ==
    /\ InitFor(ProcsConc)
    /\ post.n <= MaxBlocksConc
    /\ \A i, j \in DOMAIN mappingStore[post.id] :
          mappingStore[post.id][i] = mappingStore[post.id][j] => i = j
    /\ \A i \in DOMAIN mappingStore[post.id] : mappingStore[post.id][i] <= post.n
    /\ nextId = Len(mappingStore[post.id]) + 1
    /\ menuItemsStore = [i \in 1..(nextId - 1) |-> i]

\* utils, serializeProcessing( callback ): the callback is run on the post
\* whatever other invocation is under way for that post
serializeProcessing(p) == TRUE

\* the invocations are numbered in the order of their calls
InvokeConc(p) ==
    /\ serializeProcessing(p)
    /\ pc[p] = "idle"
    /\ \A q \in ProcsConc : q < p => pc[q] # "idle"
    /\ Invoke(p, "createMissingMenuItems")

NextConc ==
    \E p \in ProcsConc :
        \/ InvokeConc(p)
        \/ GetMappingReturns(p)
        \/ CreateReturns(p)
        \/ RefetchReturns(p)
        \/ PublishReturns(p)
        \/ Commit(p)

SpecConc == InitConc /\ [][NextConc]_vars

\* the positions of the log of p at which an item was created for block b
CreatedFor(p, b) == {i \in Got(p, CREATE, "ok") : log[p][i].arg = <<b>>}
Walked(p) == Creating(p) /\ pc[p] \in {"commit", "done"}

(* C12: nothing keeps two interleaved invocations for the same post from   *)
(* creating an item for the same block: when both have walked the tree,    *)
(* every block that is unmapped in the mappings both fetched has got one   *)
(* item from each, two items for one clientId.                             *)
C12_BothCreate ==
    \A p, q \in ProcsConc :
        (p # q /\ Walked(p) /\ Walked(q)) =>
            \A b \in Unmapped(mapping0[p]) \cap Unmapped(mapping0[q]) :
                /\ Cardinality(CreatedFor(p, b)) = 1
                /\ Cardinality(CreatedFor(q, b)) = 1
                /\ \A i \in CreatedFor(p, b) : \A j \in CreatedFor(q, b) :
                      log[p][i].val # log[q][j].val

C12_Witness ==
    \E b \in TreeBlocks :
        /\ \A p \in ProcsConc : pc[p] = "done" /\ CreatedFor(p, b) # {}
        /\ \E i \in CreatedFor(1, b) : \E j \in CreatedFor(2, b) :
              /\ log[1][i].val # log[2][j].val
              /\ post.clientId[b] \notin Range(before[1])

\* C13: within one createMissingMenuItems invocation every create request
\* that returned is followed by exactly one list refetch and then exactly one
\* publish of the refetched list plus the new item, with the invalidate flag
\* false; nothing else is yielded before that publish has completed, the block
\* being processed is still the last one popped, and only the last yielded
\* effect can be outstanding.
C13_CreateRefetchPublish ==
    \A p \in Procs :
        Creating(p) =>
            /\ \A i \in 1..(Len(log[p]) - 1) : log[p][i].res = "ok"
            /\ Count(p, REFETCH) <= Count(p, CREATE)
            /\ Count(p, PUBLISH) <= Count(p, REFETCH)
            /\ \A i \in Got(p, CREATE, "ok") :
                  /\ i + 1 <= Len(log[p])
                  /\ log[p][i + 1].op = REFETCH
                  /\ log[p][i + 1].res = "ok" =>
                        /\ i + 2 <= Len(log[p])
                        /\ log[p][i + 2].op = PUBLISH
                        /\ log[p][i + 2].arg =
                               <<log[p][i + 1].val \o log[p][i].val, FALSE>>
                  /\ i + 3 <= Len(log[p]) => log[p][i + 3].op \in {CREATE, SET}
            /\ \A i \in At(p, REFETCH) : i > 1 /\ log[p][i - 1].op = CREATE
            /\ \A i \in At(p, PUBLISH) : i > 1 /\ log[p][i - 1].op = REFETCH
            /\ pc[p] \in {"create", "refetch", "publish"} =>
                  /\ visited[p] # <<>>
                  /\ visited[p][Len(visited[p])] = block[p]
                  /\ log[p][Max(At(p, CREATE))].arg = <<block[p]>>

C13_Witness ==
    \E p \in Procs :
        /\ CreateDone(p)
        /\ Count(p, CREATE) >= 2
        /\ Count(p, PUBLISH) = Count(p, CREATE)
        /\ \E i \in At(p, REFETCH) : log[p][i].val # <<>>

\* the blocks below b in the tree of the post
RECURSIVE Descendants(_)
Descendants(b) ==
    Range(post.innerBlocks[b])
        \cup UNION {Descendants(c) : c \in Range(post.innerBlocks[b])}

\* the blocks invocation p has popped, and the place of each in that order
Popped(p) == Range(visited[p])
Pos(p, b) == CHOOSE i \in 1..Len(visited[p]) : visited[p][i] = b

\* C14: createMissingMenuItems pops no block twice, a block before each of
\* its descendants, and of two children of one block the later one and
\* the whole subtree below it before the earlier one; the create requests are
\* issued in the order the blocks are popped, for the unmapped ones only.
C14_ReversedPreorder ==
    \A p \in Procs :
        Creating(p) =>
            /\ \A i, j \in 1..Len(visited[p]) : visited[p][i] = visited[p][j] => i = j
            /\ Popped(p) \subseteq TreeBlocks
            /\ \A b \in TreeBlocks : \A d \in Descendants(b) \cap Popped(p) :
                  b \in Popped(p) /\ Pos(p, b) < Pos(p, d)
            /\ \A b \in TreeBlocks : \A i, j \in 1..Len(post.innerBlocks[b]) :
                  (i < j /\ post.innerBlocks[b][i] \in Popped(p)) =>
                      \A x \in {post.innerBlocks[b][j]} \cup Descendants(post.innerBlocks[b][j]) :
                          x \in Popped(p) /\ Pos(p, x) < Pos(p, post.innerBlocks[b][i])
            /\ \A i \in At(p, CREATE) :
                  /\ log[p][i].arg[1] \in Popped(p) \cap Unmapped(mapping0[p])
                  /\ \A j \in At(p, CREATE) :
                        i < j => Pos(p, log[p][i].arg[1]) < Pos(p, log[p][j].arg[1])
            /\ \A b \in Popped(p) \cap Unmapped(mapping0[p]) :
                  \E i \in At(p, CREATE) : log[p][i].arg = <<b>>
            /\ pc[p] \in {"commit", "done"} => Popped(p) = TreeBlocks

C14_Witness ==
    \E p \in Procs :
        /\ CreateDone(p)
        /\ post.n = 4
        /\ post.innerBlocks[Root] = <<2, 3>>
        /\ post.innerBlocks[3] = <<4>>
        /\ visited[p] = <<1, 3, 4, 2>>
        /\ Count(p, CREATE) >= 2

-----------------------------------------------------------------------------
(* createMissingMenuItems alone, every yielded effect returning in the end *)
(* and none of them throwing.                                              *)

NextTerm ==
    \E p \in Procs :
        \/ Invoke(p, "createMissingMenuItems")
        \/ GetMappingReturns(p)
        \/ CreateReturns(p)
        \/ RefetchReturns(p)
        \/ PublishReturns(p)
        \/ Commit(p)

\* the runtime resumes the generator when the effect it yielded has returned
Returns ==
    \A p \in Procs :
        /\ WF_vars(GetMappingReturns(p))
        /\ WF_vars(CreateReturns(p))
        /\ WF_vars(RefetchReturns(p))
        /\ WF_vars(PublishReturns(p))
        /\ WF_vars(Commit(p))

\* the server holds the items of the mapping and no others
InitTerm ==
    /\ Init
    /\ nextId = Len(mappingStore[post.id]) + 1
    /\ menuItemsStore = [i \in 1..(nextId - 1) |-> i]

SpecTerm == InitTerm /\ [][NextTerm]_vars /\ Returns

\* invocation p has left its loop: the stack is empty, each block of the
\* tree was popped once, and the mapping was committed once
Terminated(p) ==
    /\ CreateDone(p)
    /\ stack[p] = <<>>
    /\ Len(visited[p]) = post.n
    /\ Range(visited[p]) = TreeBlocks
    /\ Count(p, SET) = 1
    /\ Last(p).op = SET
    /\ Last(p).res = "ok"

\* C15: if every effect createMissingMenuItems yields returns in the end, an
\* invocation that has started comes to the end of its loop with the stack
\* empty and each block popped exactly once, and its commit is emitted.
C15_Terminates ==
    \A p \in Procs : (Creating(p) /\ pc[p] = "getMapping") ~> Terminated(p)

C15_Witness ==
    \E p \in Procs :
        /\ Terminated(p)
        /\ post.n = MaxBlocks
        /\ Count(p, CREATE) >= 2
        /\ \E b \in TreeBlocks : b \notin Unmapped(mapping0[p])

-----------------------------------------------------------------------------
\* the entries of the changeset the save POST of invocation p carried
Changeset(p) == log[p][Max(At(p, SAVE))].arg[2]

\* C16: saveNavigationPost issues no create request and emits no
\* SET_MENU_ITEM_TO_CLIENT_ID_MAPPING, the mapping store stays as it was at
\* the invocation, and once the nonce endpoint has given a nonce the save
\* POST is submitted, with an entry for every block below the navigation
\* block, those of the blocks the table lacks carrying the marker of a new
\* item: blocks without a mapping entry do not make the save fail.
C16_SaveDoesNotReconcile ==
    \A p \in Procs :
        Saving(p) =>
            /\ Count(p, CREATE) = 0
            /\ Count(p, SET) = 0
            /\ mappingStore[post.id] = before[p]
            /\ reconciled = again[p]
            /\ Got(p, GETNONCE, "ok") # {} =>
                  /\ Count(p, SAVE) = 1
                  /\ \A i \in At(p, SAVE) : log[p][i - 1].op = GETNONCE
                  /\ {e.block : e \in Range(Changeset(p))} = TreeBlocks \ {Root}
                  /\ Len(Changeset(p)) = post.n - 1
                  /\ \A e \in Range(Changeset(p)) :
                        e.id = 0 <=> e.block \in Unmapped(mapping0[p])

C16_Witness ==
    \E p \in Procs :
        /\ Saving(p) /\ pc[p] = "done"
        /\ ~again[p]
        /\ Got(p, SAVE, "ok") # {}
        /\ Got(p, SUCCESS, "ok") # {}
        /\ \E e \in Range(Changeset(p)) : e.id = 0
        /\ \E e \in Range(Changeset(p)) : e.id # 0

\* invocation p is a save that began after a completed reconciliation and
\* has built its table
TableBuilt(p) ==
    Saving(p) /\ again[p] /\ pc[p] \notin {"idle", "saveItems", "saveMapping", "failed"}

-----------------------------------------------------------------------------
(* getAnimateClassName.  A string is the sequence of its pieces, the words *)
(* and the blanks between them, so that + is \o and split( ' ' ) cuts at   *)
(* the blanks.                                                             *)

Words == {"top", "middle", "bottom", "left", "right", "center"}
Types == {"loading", "appear", "slide-in", "fade"}

\* the origins a call is made with: one word, or two with a blank between
Origins == {<<y>> : y \in Words} \cup {<<y, " ", x>> : y, x \in Words}

\* options.origin may be absent
Options ==
    {[type |-> t, hasOrigin |-> FALSE, origin |-> <<>>] : t \in Types} \cup
    {[type |-> t, hasOrigin |-> TRUE, origin |-> o] : t \in Types, o \in Origins}

Undefined == [defined |-> FALSE, value |-> <<>>]
Value(s) == [defined |-> TRUE, value |-> s]

\* (mutant) the default origin is 'left' whatever the type
getDefaultOriginLeft(type) == <<"left">>

getDefaultOrigin(type) == IF type = "appear" THEN <<"top">> ELSE <<"left">>

\* String.prototype.split: the parts of s between the pieces equal to sep
RECURSIVE split(_, _)
split(s, sep) ==
    IF \A i \in 1..Len(s) : s[i] # sep THEN <<s>>
    ELSE LET i == Min({j \in 1..Len(s) : s[j] = sep})
         IN <<SubSeq(s, 1, i - 1)>> \o split(SubSeq(s, i + 1, Len(s)), sep)

\* an object literal of computed keys: a key written again keeps its place
\* and takes the later value
RECURSIVE ObjectOf(_)
ObjectOf(pairs) ==
    IF pairs = <<>> THEN <<>>
    ELSE LET init == ObjectOf(SubSeq(pairs, 1, Len(pairs) - 1))
             last == pairs[Len(pairs)]
         IN IF \E i \in 1..Len(init) : init[i].key = last.key
            THEN [i \in 1..Len(init) |->
                    IF init[i].key = last.key THEN last ELSE init[i]]
            ELSE Append(init, last)

\* classnames( name, object ): the name, then the keys of the object whose
\* value is truthy, in the order of the keys, with a blank between
RECURSIVE classnames(_, _)
classnames(name, object) ==
    IF object = <<>> THEN name
    ELSE LET init == classnames(name, SubSeq(object, 1, Len(object) - 1))
             last == object[Len(object)]
         IN IF last.value THEN init \o <<" ">> \o last.key ELSE init

getAnimateClassName(options) ==
    IF options.type = "loading"
    THEN Value(classnames(<<"components-animate__loading">>, <<>>))
    ELSE LET type == options.type
             origin == IF options.hasOrigin THEN options.origin
                       ELSE getDefaultOrigin(type)
         IN IF type = "appear"
            THEN LET parts == split(origin, " ")
                     yAxis == parts[1]
                     xAxis == IF Len(parts) >= 2 THEN parts[2] ELSE <<"center">>
                 IN Value(classnames(<<"components-animate__appear">>,
                        ObjectOf(<<[key |-> <<"is-from-">> \o xAxis,
                                    value |-> xAxis # <<"center">>],
                                   [key |-> <<"is-from-">> \o yAxis,
                                    value |-> yAxis # <<"middle">>]>>)))
            ELSE IF type = "slide-in"
            THEN Value(classnames(<<"components-animate__slide-in">>,
                        <<[key |-> <<"is-from-">> \o origin, value |-> TRUE]>>))
            ELSE Undefined

\* the state in which only a pure function runs: no invocation, an empty post
InitPure ==
    /\ InitFor(Procs)
    /\ post.n = 1
    /\ mappingStore[post.id] = <<>>
    /\ nextId = 1

CallAnimate(o) ==
    /\ call = NoCall
    /\ call' = [fn |-> "getAnimateClassName", options |-> o, returned |-> FALSE,
                result |-> Undefined]
    /\ UNCHANGED <<globals, locals, history>>

ReturnAnimate ==
    /\ call.fn = "getAnimateClassName"
    /\ ~call.returned
    /\ call' = [call EXCEPT !.returned = TRUE,
                            !.result = getAnimateClassName(call.options)]
    /\ UNCHANGED <<globals, locals, history>>

NextAnimate == (\E o \in Options : CallAnimate(o)) \/ ReturnAnimate

SpecAnimate == InitPure /\ [][NextAnimate]_vars

\* a call of getAnimateClassName has returned
Returned == call.fn = "getAnimateClassName" /\ call.returned

\* the origin 'Y' or 'Y X' of the call, 'top' when none is given
YOf(o) == IF o.hasOrigin THEN o.origin[1] ELSE "top"
XGiven(o) == o.hasOrigin /\ Len(o.origin) = 3
\* the origins of the declared domain, and those of two different words
Declared(o) ==
    \/ ~o.hasOrigin
    \/ Len(o.origin) = 1
    \/ Len(o.origin) = 3 /\ o.origin[2] = " " /\ o.origin[1] # o.origin[3]

\* C18: getAnimateClassName returns 'components-animate__loading' for the
\* type 'loading'; for 'appear' with the origin 'Y' or 'Y X' (default 'top')
\* 'components-animate__appear', then 'is-from-X' exactly when X is given
\* and is not 'center', then 'is-from-Y' exactly when Y is not 'middle';
\* for 'slide-in' (default 'left') 'components-animate__slide-in
\* is-from-<origin>'; and undefined for any other type.
C18_ClassNameTable ==
    Returned =>
        LET o == call.options
            r == call.result
        IN /\ o.type = "loading" => r = Value(<<"components-animate__loading">>)
           /\ (o.type = "appear" /\ Declared(o)) =>
                 r = Value(<<"components-animate__appear">>
                           \o (IF XGiven(o) /\ o.origin[3] # "center"
                               THEN <<" ", "is-from-", o.origin[3]>> ELSE <<>>)
                           \o (IF YOf(o) # "middle"
                               THEN <<" ", "is-from-", YOf(o)>> ELSE <<>>))
           /\ o.type = "slide-in" =>
                 r = Value(<<"components-animate__slide-in", " ", "is-from-">>
                           \o (IF o.hasOrigin THEN o.origin ELSE <<"left">>))
           /\ o.type \notin {"loading", "appear", "slide-in"} => r = Undefined

C18_Witness ==
    /\ Returned
    /\ call.options = [type |-> "appear", hasOrigin |-> TRUE,
                       origin |-> <<"bottom", " ", "right">>]
    /\ call.result = Value(<<"components-animate__appear", " ", "is-from-", "right",
                             " ", "is-from-", "bottom">>)

-----------------------------------------------------------------------------
(* mapMenuItemsByClientId on lists and mappings of every shape. *)

MaxItems == 3

\* the clientIds of the mappings; 0 is the falsy one
SomeClientIds == {0, 1, 2}

Lists == UNION {[1..n -> 1..MaxItems] : n \in 0..MaxItems}
Mappings == UNION {[S -> SomeClientIds] : S \in SUBSET (1..MaxItems)}

\* the function is called with a list and a mapping, either possibly missing
CallMap ==
    /\ call = NoCall
    /\ \E l \in {Missing} \cup {Given(s) : s \in Lists} :
         \E m \in {Missing} \cup {Given(f) : f \in Mappings} :
             call' = [fn |-> "mapMenuItemsByClientId", menuItems |-> l,
                      clientIdsByMenuId |-> m, returned |-> FALSE, result |-> <<>>]
    /\ UNCHANGED <<globals, locals, history>>

ReturnMap ==
    /\ call.fn = "mapMenuItemsByClientId"
    /\ ~call.returned
    /\ call' = [call EXCEPT !.returned = TRUE,
                            !.result = mapMenuItemsByClientId(call.menuItems,
                                                              call.clientIdsByMenuId)]
    /\ UNCHANGED <<globals, locals, history>>

NextMap == CallMap \/ ReturnMap

SpecMap == InitPure /\ [][NextMap]_vars

MapReturned == call.fn = "mapMenuItemsByClientId" /\ call.returned

\* the places of the list l whose item the mapping m gives the clientId c
PlacesOf(l, m, c) == {i \in 1..Len(l) : l[i] \in DOMAIN m /\ m[l[i]] = c}

\* C19: mapMenuItemsByClientId returns the empty table when the list or the
\* mapping is missing; otherwise the keys of its result are the truthy
\* clientIds the mapping gives to the id of some listed item, the value of
\* a key is the last listed item whose id is mapped to it, and an item
\* whose id has no entry in the mapping is no value of the table.
C19_TableOfListAndMapping ==
    MapReturned =>
        LET l == call.menuItems
            m == call.clientIdsByMenuId
            t == call.result
        IN /\ (~l.present \/ ~m.present) => t = <<>>
           /\ (l.present /\ m.present) =>
                 /\ DOMAIN t = {c \in SomeClientIds :
                                  Truthy(c) /\ PlacesOf(l.value, m.value, c) # {}}
                 /\ \A c \in DOMAIN t :
                       t[c] = l.value[Max(PlacesOf(l.value, m.value, c))]
                 /\ \A i \in 1..Len(l.value) :
                       l.value[i] \notin DOMAIN m.value => l.value[i] \notin Range(t)

C19_Witness ==
    /\ MapReturned
    /\ call.menuItems = Given(<<1, 2, 3>>)
    /\ call.clientIdsByMenuId = Given((1 :> 2) @@ (2 :> 2))
    /\ call.result = (2 :> 2)

====
